---- MODULE Spec2Model ----
(***************************************************************************)
(* Model of tarmac's upload-image pipeline: credential resolution          *)
(* (api/mod.rs), the Open Cloud driver (api/web.rs and its older copy      *)
(* roblox_web_api.rs) and the upload_image command.                        *)
(***************************************************************************)
EXTENDS Integers, Sequences, FiniteSets, TLC

\* ---------------------------------------------------------------- bounds
\* Asset ids the service may report are 0..MaxAssetId.
MaxAssetId == 2

\* ------------------------------------------------------------- Option<T>
None == {}
Some(x) == {x}
Unwrap(o) == CHOOSE x \in o : TRUE

\* --------------------------------------------------------------- inputs
\* Secrets are byte strings; 107 = 'k', 99 = 'c', 101 = 'e', 10 = '\n'.
ApiKeys == {<<107>>, <<107, 10>>}
Cookies == {<<99>>}
EnvCookies == {<<101>>}

\* The two copies of the Open Cloud driver in the tree.
Builds == {"api/web.rs", "roblox_web_api.rs"}

StatusCodes == {200, 201, 302, 403, 500}

\* A response body.  json = FALSE is text that is not JSON at all; otherwise
\* the body is a JSON object and every field is an Option (None = absent).
EmptyObject ==
    [json |-> TRUE,
     path |-> None, statusUrl |-> None,
     done |-> None, response_assetId |-> None,
     status |-> None, result |-> FALSE,
     result_status |-> None, result_assetId |-> None,
     result_assetVersionNumber |-> None,
     header_echo |-> FALSE]

NotJson == [EmptyObject EXCEPT !.json = FALSE]

PathBody == [EmptyObject EXCEPT !.path = Some("operations/op1")]
StatusUrlBody == [EmptyObject EXCEPT !.statusUrl = Some("https://status/op1")]

\* Text that repeats the value of the request's x-api-key header (an echo
\* or diagnostics endpoint, a proxy error page).
EchoBody == [NotJson EXCEPT !.header_echo = TRUE]

CreateBodies == {NotJson, EmptyObject, PathBody, StatusUrlBody, EchoBody}

\* {"done":false}, {"done":true}, {"done":true,"response":{"assetId":a,..}}
DoneFalseBody == [EmptyObject EXCEPT !.done = Some(FALSE)]
DoneTrueNoPayloadBody == [EmptyObject EXCEPT !.done = Some(TRUE)]
DoneTrueBody(a) ==
    [EmptyObject EXCEPT !.done = Some(TRUE), !.response_assetId = Some(a)]

\* {"status":s,"result":{"status":rs,"assetId":a,"assetVersionNumber":1}}
ResultBody(rs, a) ==
    [EmptyObject EXCEPT !.status = Some("Complete"), !.result = TRUE,
                        !.result_status = Some(rs),
                        !.result_assetId = Some(a),
                        !.result_assetVersionNumber = Some(1)]
\* the same without the assetId field
ResultNoIdBody ==
    [EmptyObject EXCEPT !.status = Some("Complete"), !.result = TRUE,
                        !.result_status = Some("Success"),
                        !.result_assetVersionNumber = Some(1)]

StatusBodies ==
    {NotJson, DoneFalseBody, DoneTrueNoPayloadBody, ResultNoIdBody, PathBody,
     EchoBody}
    \cup {DoneTrueBody(a) : a \in 0..MaxAssetId}
    \cup {ResultBody("Success", a) : a \in 0..MaxAssetId}
    \cup {ResultBody("Failed", a) : a \in 0..MaxAssetId}

NoResponse == [received |-> FALSE, status |-> 0, body |-> NotJson]
Response(s, b) == [received |-> TRUE, status |-> s, body |-> b]

\* ------------------------------------------------------ RobloxApiError
NoResult ==
    [kind |-> "none", asset_id |-> None, status |-> None, body |-> None,
     message |-> "", plaintext |-> None]
Ok(id) == [NoResult EXCEPT !.kind = "Ok", !.asset_id = Some(id)]
ApiError(m) == [NoResult EXCEPT !.kind = "ApiError", !.message = m]
BadResponseJson(b) ==
    [NoResult EXCEPT !.kind = "BadResponseJson", !.body = Some(b)]
ResponseError(s, b) ==
    [NoResult EXCEPT !.kind = "ResponseError", !.status = Some(s),
                     !.body = Some(b)]
Http == [NoResult EXCEPT !.kind = "Http"]
Headers == [NoResult EXCEPT !.kind = "Headers"]
MissingCsrfToken == [NoResult EXCEPT !.kind = "MissingCsrfToken"]

IsErr(r) == r.kind \notin {"none", "Ok"}

\* Variant: the error keeps the string that failed to convert.
HeadersError_WithValue(secret) == [Headers EXCEPT !.plaintext = secret]

\* map_err(|source| RobloxApiError::Headers { source }): the source is an
\* InvalidHeaderValue, which holds nothing of the rejected string.
HeadersError(secret) == Headers

\* impl fmt::Debug for RobloxApiClient: the type name and no field.
Debug_fmt(secret) == [name |-> "RobloxApiClient", fields |-> None]

\* ------------------------------------------------------ pure functions
\* Variant: redirects counted as success.
is_success_Below400(s) == s >= 200 /\ s < 400

\* reqwest StatusCode::is_success
is_success(s) == s >= 200 /\ s < 300

\* HeaderValue::from_str: every byte must be visible ASCII or a tab.
is_visible_ascii(b) == (b >= 32 /\ b < 127) \/ b = 9
HeaderValue_from_str(s) == \A i \in 1..Len(s) : is_visible_ascii(s[i])

\* serde_json::from_str::<RawUploadResponse>: one required string field,
\* `path` in api/web.rs and `statusUrl` in roblox_web_api.rs.
RawUploadResponse(b, body) ==
    IF ~body.json THEN None
    ELSE IF b = "api/web.rs" THEN body.path ELSE body.statusUrl

\* serde_json::from_str::<RawStatusResponse>: status: String and
\* result: AssetInfo {status: ResponseStatus, assetId, assetVersionNumber}
\* are all required; ResponseStatus has the single variant Success.
ParsesAsRawStatusResponse(body) ==
    /\ body.json
    /\ body.status # None
    /\ body.result
    /\ body.result_status = Some("Success")
    /\ body.result_assetId # None
    /\ body.result_assetVersionNumber # None

\* ImageData values the caller may pass.
ImageDatas ==
    [name : {"img"}, description : {"", "d"},
     creator : [creatorType : {"User", "Group"}, creatorId : {7}]]

\* JSON text is a sequence of chunks; a string value is its three chunks
\* quote, characters, quote, and a number its decimal form.
JsonString(s) == <<"\"", s, "\"">>
JsonNumber(n) == <<ToString(n)>>
JsonOption(o) == IF o = None THEN <<"null">> ELSE JsonNumber(Unwrap(o))

\* Variant: the creator written as {userId} / {groupId}.
Serialize_Creator_ById(c) ==
    <<IF c.creatorType = "User" THEN "{\"userId\":" ELSE "{\"groupId\":">>
    \o JsonNumber(c.creatorId) \o <<"}">>

\* #[derive(Serialize)] struct Creator { creatorType, creatorId }; the
\* unit variants of CreatorType serialize as their names.
Serialize_Creator(c) ==
    <<"{\"creatorType\":">> \o JsonString(c.creatorType)
    \o <<",\"creatorId\":">> \o JsonNumber(c.creatorId) \o <<"}">>

\* impl From<ImageData> for AssetUploadData.  assetId is Option<u64> set
\* to None in api/web.rs and a plain u64 in roblox_web_api.rs.
AssetUploadData_from(b, data) ==
    [creationContext |->
        [targetType |-> "Decal",
         assetName |-> data.name,
         assetDescription |-> data.description,
         assetId |-> IF b = "api/web.rs" THEN None ELSE Some(0),
         creator |-> data.creator]]

\* serde_json::to_string(data) for the derived Serialize of
\* AssetUploadData and CreationContext: fields in declaration order.
to_string(d) ==
    <<"{\"creationContext\":{\"targetType\":">>
    \o JsonString(d.creationContext.targetType)
    \o <<",\"assetName\":">> \o JsonString(d.creationContext.assetName)
    \o <<",\"assetDescription\":">>
    \o JsonString(d.creationContext.assetDescription)
    \o <<",\"assetId\":">> \o JsonOption(d.creationContext.assetId)
    \o <<",\"creator\":">> \o Serialize_Creator(d.creationContext.creator)
    \o <<"}}">>

\* The URL of the status GET.
API_BASE == "https://apis.roblox.com/assets/v1/"
CreateUrl(b) ==
    IF b = "api/web.rs" THEN <<API_BASE, "assets">>
    ELSE <<"https://apis.roblox.com/assets/v1/create">>
StatusUrl(b, handle) ==
    IF b = "api/web.rs" THEN <<API_BASE, handle>> ELSE <<handle>>

\* Variant: the body is parsed before the status is looked at.
HandleCreateResponse_ParseFirst(b, resp) ==
    IF RawUploadResponse(b, resp.body) # None
    THEN [next |-> "status", result |-> NoResult]
    ELSE IF is_success(resp.status)
         THEN [next |-> "return", result |-> BadResponseJson(resp.body)]
         ELSE [next |-> "return",
               result |-> ResponseError(resp.status, resp.body)]

\* upload_asset_raw, the part after the Create response has been read:
\* what the call does next.
HandleCreateResponse(b, resp) ==
    IF is_success(resp.status)
    THEN IF RawUploadResponse(b, resp.body) # None
         THEN [next |-> "status", result |-> NoResult]
         ELSE [next |-> "return", result |-> BadResponseJson(resp.body)]
    ELSE [next |-> "return",
          result |-> ResponseError(resp.status, resp.body)]

\* Variant: the malformed-body error carries `body` (the Create body)
\* instead of `status` (the status body).
HandleStatusResponse_CreateBody(create, resp) ==
    IF is_success(resp.status)
    THEN IF ParsesAsRawStatusResponse(resp.body)
         THEN IF resp.body.result_status = Some("Success")
              THEN Ok(Unwrap(resp.body.result_assetId))
              ELSE ApiError("Fetching Upload Status failed")
         ELSE BadResponseJson(create.body)
    ELSE ResponseError(create.status, resp.body)

\* upload_asset_raw, the part after the status response has been read,
\* followed by upload_asset's match on result.status.  The ResponseError
\* of this branch takes its status from the Create response.
HandleStatusResponse(create, resp) ==
    IF is_success(resp.status)
    THEN IF ParsesAsRawStatusResponse(resp.body)
         THEN IF resp.body.result_status = Some("Success")
              THEN Ok(Unwrap(resp.body.result_assetId))
              ELSE ApiError("Fetching Upload Status failed")
         ELSE BadResponseJson(resp.body)
    ELSE ResponseError(create.status, resp.body)

\* Variant: get_auth_cookie().or(options.cookie): discovery comes first.
From_GlobalOptions_DiscoverFirst(api_key, cookie, discover) ==
    IF api_key # None
    THEN [variant |-> "Web", secret |-> api_key, called |-> FALSE,
          panic |-> ""]
    ELSE LET auth_token == IF discover # None THEN discover ELSE cookie
         IN  IF auth_token # None
             THEN [variant |-> "Cookie", secret |-> auth_token,
                   called |-> TRUE, panic |-> ""]
             ELSE [variant |-> "none", secret |-> None, called |-> TRUE,
                   panic |-> "no auth cookie found"]

\* Variant: a configured cookie is looked at before the API key.
From_GlobalOptions_CookieFirst(api_key, cookie, discover) ==
    IF cookie # None
    THEN [variant |-> "Cookie", secret |-> cookie, called |-> FALSE,
          panic |-> ""]
    ELSE IF api_key # None
    THEN [variant |-> "Web", secret |-> api_key, called |-> FALSE,
          panic |-> ""]
    ELSE IF discover # None
    THEN [variant |-> "Cookie", secret |-> discover, called |-> TRUE,
          panic |-> ""]
    ELSE [variant |-> "none", secret |-> None, called |-> TRUE,
          panic |-> "no auth cookie found"]

\* Variant: unwrap_or_default() instead of expect(): an empty cookie.
From_GlobalOptions_EmptyCookie(api_key, cookie, discover) ==
    IF api_key # None
    THEN [variant |-> "Web", secret |-> api_key, called |-> FALSE,
          panic |-> ""]
    ELSE LET auth_token == IF cookie # None THEN cookie ELSE discover
         IN  [variant |-> "Cookie",
              secret |-> IF auth_token # None THEN auth_token
                         ELSE Some(<<>>),
              called |-> (cookie = None), panic |-> ""]

\* impl From<GlobalOptions> for RobloxApiClient.  discover is what
\* get_auth_cookie would return; called tells whether it was invoked.
From_GlobalOptions(api_key, cookie, discover) ==
    IF api_key # None
    THEN [variant |-> "Web", secret |-> api_key, called |-> FALSE,
          panic |-> ""]
    ELSE LET auth_token == IF cookie # None THEN cookie ELSE discover
         IN  IF auth_token # None
             THEN [variant |-> "Cookie", secret |-> auth_token,
                   called |-> (cookie = None), panic |-> ""]
             ELSE [variant |-> "none", secret |-> None,
                   called |-> (cookie = None),
                   panic |-> "no auth cookie found"]

\* ---------------------------------------------------------------- state
VARIABLES
    build,        \* which copy of the cloud driver is compiled in
    caller,       \* "upload_image" (the command) or "library"
    method,       \* the RobloxApiClient method the caller invokes
    api_key, cookie, env_cookie,   \* GlobalOptions and the environment
    upload_data,  \* ImageData: name, description, creator
    pc,           \* position of the run
    image,        \* the pipeline stages the image bytes went through
    client,       \* the constructed RobloxApiClient
    discovered,   \* get_auth_cookie has been called
    dispatched,   \* the driver function upload was dispatched to
    requests,     \* HTTP requests sent so far
    in_flight,    \* requests sent whose send()/text() has not returned
    transport_failed,   \* index of the request whose send()/text() failed
    sleeps,       \* thread::sleep calls made
    create_response, status_response,
    result,       \* what the RobloxApiClient method returned
    panic,        \* panic message, "" when none
    stdout, stderr, exit_code

vars == <<build, caller, method, api_key, cookie, env_cookie, upload_data,
          pc, image,
          client, discovered, dispatched, requests, in_flight,
          transport_failed, sleeps, create_response, status_response,
          result, panic, stdout, stderr, exit_code>>

config == <<build, caller, method, api_key, cookie, env_cookie,
            upload_data>>
net == <<requests, in_flight, transport_failed, sleeps, create_response,
         status_response>>
out == <<stdout, stderr, exit_code>>

NoClient == [variant |-> "none", secret |-> None]

Init ==
    /\ build \in Builds
    /\ caller \in {"upload_image", "library"}
    /\ method \in {"upload_asset", "upload_asset_with_moderation_retry"}
    /\ caller = "upload_image" => method = "upload_asset"
    /\ api_key \in {None} \cup {Some(k) : k \in ApiKeys}
    /\ cookie \in {None} \cup {Some(c) : c \in Cookies}
    /\ env_cookie \in {None} \cup {Some(c) : c \in EnvCookies}
    /\ upload_data \in ImageDatas
    /\ pc = IF caller = "upload_image" THEN "read" ELSE "resolve"
    /\ image = IF caller = "upload_image" THEN <<>> ELSE <<"given">>
    /\ client = NoClient
    /\ discovered = FALSE
    /\ dispatched = ""
    /\ requests = <<>>
    /\ in_flight = 0
    /\ transport_failed = None
    /\ sleeps = 0
    /\ create_response = NoResponse
    /\ status_response = NoResponse
    /\ result = NoResult
    /\ panic = ""
    /\ stdout = <<>>
    /\ stderr = <<>>
    /\ exit_code = None

\* A panic unwinds out of main: message on stderr, exit status 101.
Panic(msg) ==
    /\ pc' = "exited"
    /\ panic' = msg
    /\ stderr' = Append(stderr, msg)
    /\ exit_code' = Some(101)
    /\ UNCHANGED stdout

\* --------------------------------------------------- upload_image steps
ReadFile ==
    /\ pc = "read"
    /\ \/ /\ pc' = "decode"
          /\ image' = <<"file">>
          /\ UNCHANGED <<panic, out>>
       \/ /\ Panic("couldn't read input file")
          /\ UNCHANGED image
    /\ UNCHANGED <<config, client, discovered, dispatched, net, result>>

Decode ==
    /\ pc = "decode"
    /\ \/ /\ pc' = "bleed"
          /\ image' = Append(image, "decoded")
          /\ UNCHANGED <<panic, out>>
       \/ /\ Panic("couldn't load image")
          /\ UNCHANGED image
    /\ UNCHANGED <<config, client, discovered, dispatched, net, result>>

AlphaBleed ==
    /\ pc = "bleed"
    /\ pc' = "encode"
    /\ image' = Append(image, "bled")
    /\ UNCHANGED <<config, client, discovered, dispatched, net, result,
                   panic, out>>

Encode ==
    /\ pc = "encode"
    /\ \/ /\ pc' = "resolve"
          /\ image' = Append(image, "png")
          /\ UNCHANGED <<panic, out>>
       \/ /\ Panic("called Result::unwrap() on an Err value")
          /\ UNCHANGED image
    /\ UNCHANGED <<config, client, discovered, dispatched, net, result>>

\* RobloxApiClient::from(global)
Resolve ==
    /\ pc = "resolve"
    /\ LET r == From_GlobalOptions(api_key, cookie, env_cookie)
       IN  /\ discovered' = r.called
           /\ IF r.panic = ""
              THEN /\ client' = [variant |-> r.variant, secret |-> r.secret]
                   /\ pc' = "upload"
                   /\ UNCHANGED <<panic, out>>
              ELSE /\ Panic(r.panic)
                   /\ UNCHANGED client
    /\ UNCHANGED <<config, image, dispatched, net, result>>

\* Variant: the Web arm of upload_asset_with_moderation_retry has a retry
\* function of its own.
DispatchTarget_WebRetry(variant, m) ==
    IF variant = "Web"
    THEN IF m = "upload_asset" THEN "web::upload_asset"
         ELSE "web::upload_asset_with_moderation_retry"
    ELSE IF m = "upload_asset" THEN "cookie::upload_image"
    ELSE "cookie::upload_image_with_moderation_retry"

\* Variant: the cookie arm of upload_asset calls the retrying upload too.
DispatchTarget_AlwaysRetry(variant, m) ==
    IF variant = "Web" THEN "web::upload_asset"
    ELSE "cookie::upload_image_with_moderation_retry"

\* RobloxApiClient::upload_asset / upload_asset_with_moderation_retry of
\* api/mod.rs: the match on the client's variant.
DispatchTarget(variant, m) ==
    IF variant = "Web" THEN "web::upload_asset"
    ELSE IF m = "upload_asset" THEN "cookie::upload_image"
    ELSE "cookie::upload_image_with_moderation_retry"

Dispatch ==
    /\ pc = "upload"
    /\ dispatched' = DispatchTarget(client.variant, method)
    /\ pc' = IF client.variant = "Web" THEN "create" ELSE "cookie"
    /\ UNCHANGED <<config, image, client, discovered, net, result, panic,
                   out>>

\* ------------------------------------------- web::upload_asset(_raw)
Request(m, url, key, parts) ==
    [method |-> m, url |-> url, x_api_key |-> key, parts |-> parts]
Part(name, content) == [name |-> name, content |-> content]

\* Variant: the file as read is passed on.
UploadedImage_Raw(img) == <<"file">>

\* Cow::Owned(encoded_image.to_vec()): the bytes handed to upload_asset.
UploadedImage(img) == img

\* Build the multipart form and the x-api-key header, then POST.
SendCreate ==
    /\ pc = "create"
    /\ IF HeaderValue_from_str(Unwrap(client.secret))
       THEN /\ requests' = Append(requests,
                  Request("POST", CreateUrl(build), client.secret,
                      <<Part("fileContent", UploadedImage(image)),
                        Part("request",
                             to_string(AssetUploadData_from(build,
                                                            upload_data)))>>))
            /\ in_flight' = in_flight + 1
            /\ pc' = "await_create"
            /\ UNCHANGED result
       ELSE /\ result' = HeadersError(client.secret)
            /\ pc' = "returned"
            /\ UNCHANGED <<requests, in_flight>>
    /\ UNCHANGED <<config, image, client, discovered, dispatched,
                   transport_failed, sleeps, create_response,
                   status_response, panic, out>>

\* Variant: a transport failure of the Create request is retried once.
RecvCreate_Retry ==
    /\ pc = "await_create"
    /\ in_flight' = in_flight - 1
    /\ \/ /\ transport_failed' = Some(Len(requests))
          /\ IF Len(requests) < 2
             THEN pc' = "create" /\ UNCHANGED result
             ELSE pc' = "returned" /\ result' = Http
          /\ UNCHANGED create_response
       \/ \E s \in StatusCodes, b \in CreateBodies :
            LET resp == Response(s, b)
                h == HandleCreateResponse(build, resp)
            IN  /\ create_response' = resp
                /\ result' = h.result
                /\ pc' = IF h.next = "status" THEN "status" ELSE "returned"
                /\ UNCHANGED transport_failed
    /\ UNCHANGED <<config, image, client, discovered, dispatched, requests,
                   sleeps, status_response, panic, out>>

\* send()? and text()? of the Create request, then the status check.
RecvCreate ==
    /\ pc = "await_create"
    /\ in_flight' = in_flight - 1
    /\ \/ /\ result' = Http
          /\ transport_failed' = Some(Len(requests))
          /\ pc' = "returned"
          /\ UNCHANGED create_response
       \/ \E s \in StatusCodes, b \in CreateBodies :
            LET resp == Response(s, b)
                h == HandleCreateResponse(build, resp)
            IN  /\ create_response' = resp
                /\ result' = h.result
                /\ pc' = IF h.next = "status" THEN "status" ELSE "returned"
                /\ UNCHANGED transport_failed
    /\ UNCHANGED <<config, image, client, discovered, dispatched, requests,
                   sleeps, status_response, panic, out>>

\* "fetch status": the single GET of the path the Create response named.
SendStatus ==
    /\ pc = "status"
    /\ requests' = Append(requests,
           Request("GET",
                   StatusUrl(build,
                       Unwrap(RawUploadResponse(build, create_response.body))),
                   client.secret, <<>>))
    /\ in_flight' = in_flight + 1
    /\ pc' = "await_status"
    /\ UNCHANGED <<config, image, client, discovered, dispatched,
                   transport_failed, sleeps, create_response,
                   status_response, result, panic, out>>

RecvStatus ==
    /\ pc = "await_status"
    /\ in_flight' = in_flight - 1
    /\ \/ /\ result' = Http
          /\ transport_failed' = Some(Len(requests))
          /\ UNCHANGED status_response
       \/ \E s \in StatusCodes, b \in StatusBodies :
            LET resp == Response(s, b)
            IN  /\ status_response' = resp
                /\ result' = HandleStatusResponse(create_response, resp)
                /\ UNCHANGED transport_failed
    /\ pc' = "returned"
    /\ UNCHANGED <<config, image, client, discovered, dispatched, requests,
                   sleeps, create_response, panic, out>>

\* ------------------------------------------------ cookie::upload_image
\* The session driver.  One attempt is one upload request whose answer is
\* an asset id or an error; ApiError("moderation") stands for a moderation
\* verdict.  upload_image_with_moderation_retry repeats a moderated attempt
\* up to ModerationRetries more times, sleeping between attempts.
ModerationRetries == 4

CookieResults ==
    {Ok(a) : a \in 0..MaxAssetId}
    \cup {MissingCsrfToken, Http, ApiError("moderation")}
    \cup {ResponseError(s, NotJson) : s \in {s \in StatusCodes : ~is_success(s)}}

CookieUpload ==
    /\ pc = "cookie"
    /\ requests' = Append(requests,
           Request("POST", <<"https://data.roblox.com/data/upload/json">>,
                   None, <<Part("body", UploadedImage(image))>>))
    /\ \E r \in CookieResults :
         IF /\ r = ApiError("moderation")
            /\ dispatched = "cookie::upload_image_with_moderation_retry"
            /\ Len(requests) < ModerationRetries
         THEN /\ sleeps' = sleeps + 1
              /\ UNCHANGED <<pc, result>>
         ELSE /\ result' = r
              /\ pc' = "returned"
              /\ UNCHANGED sleeps
    /\ UNCHANGED <<config, image, client, discovered, dispatched, in_flight,
                   transport_failed, create_response, status_response,
                   panic, out>>

\* ----------------------------------------------- back in the caller
\* upload_image: .expect("Roblox API request failed"), then the two prints.
Finish ==
    /\ pc = "returned"
    /\ IF caller = "upload_image"
       THEN IF result.kind = "Ok"
            THEN /\ stderr' = Append(stderr, "Image uploaded successfully!")
                 /\ stdout' = Append(stdout,
                        <<"rbxassetid://", Unwrap(result.asset_id)>>)
                 /\ exit_code' = Some(0)
                 /\ pc' = "exited"
                 /\ UNCHANGED panic
            ELSE Panic("Roblox API request failed")
       ELSE /\ pc' = "exited"
            /\ UNCHANGED <<panic, out>>
    /\ UNCHANGED <<config, image, client, discovered, dispatched, net,
                   result>>

Next ==
    \/ ReadFile
    \/ Decode
    \/ AlphaBleed
    \/ Encode
    \/ Resolve
    \/ Dispatch
    \/ SendCreate
    \/ RecvCreate
    \/ SendStatus
    \/ RecvStatus
    \/ CookieUpload
    \/ Finish

Spec == Init /\ [][Next]_vars

\* ================================================================ claims
Returned == pc \in {"returned", "exited"}
PollOk == status_response.received /\ is_success(status_response.status)
PollGets == {i \in 1..Len(requests) : requests[i].method = "GET"}

\* C1: in the cloud flow, a 2xx poll response with done=true and
\* response.assetId = a makes upload return exactly a.
C1_DoneTrueReturnsAssetId ==
    \A a \in 0..MaxAssetId :
        (/\ PollOk
         /\ status_response.body.done = Some(TRUE)
         /\ status_response.body.response_assetId = Some(a))
        => result = Ok(a)

\* C2: a 2xx poll response with done=false does not end the upload: the
\* call is still running (and goes on to poll again).
C2_DoneFalseKeepsPolling ==
    (PollOk /\ status_response.body.done = Some(FALSE))
    => (~Returned /\ result = NoResult)

\* C3: when the poll responses are all done=false, the call ends with
\* ApiError("timeout") and with nothing else.
C3_AllDoneFalseEndsInTimeout ==
    (/\ Returned
     /\ PollOk
     /\ status_response.body.done = Some(FALSE))
    => result = ApiError("timeout")

\* C4: a non-2xx poll response fails the upload with ResponseError whose
\* status and body are both those of the poll response.
C4_PollErrorCarriesPollStatus ==
    (status_response.received /\ ~is_success(status_response.status))
    => result = ResponseError(status_response.status, status_response.body)

\* C5: a non-2xx Create response fails the upload with ResponseError of
\* that response's status and body, and no poll GET is sent.
C5_CreateErrorNoPoll ==
    (create_response.received /\ ~is_success(create_response.status))
    => /\ result = ResponseError(create_response.status,
                                 create_response.body)
       /\ Returned
       /\ PollGets = {}
       /\ Len(requests) = 1
       /\ ~status_response.received

C5_Witness ==
    /\ create_response.received
    /\ create_response.status = 403
    /\ create_response.body = PathBody
    /\ result.kind = "ResponseError"
    /\ pc = "exited"

C7_DoneWithoutPayloadIsProcessingFailed ==
    (/\ PollOk
     /\ status_response.body.done = Some(TRUE)
     /\ status_response.body.response_assetId = None)
    => result = ApiError("processing failed")

\* C8: with an API key configured the driver is the cloud driver holding
\* that key, whatever cookie is configured or discoverable; the cookie is
\* not used and discovery is not consulted.
AfterResolve ==
    pc \in {"upload", "create", "await_create", "status", "await_status",
            "cookie", "returned"}

C8_ApiKeyTakesPrecedence ==
    api_key # None
    => /\ ~discovered
       /\ client.variant \in {"none", "Web"}
       /\ client.variant = "Web" => client.secret = api_key
       /\ AfterResolve => client.variant = "Web"
       /\ dispatched \in {"", "web::upload_asset"}
       /\ \A i \in 1..Len(requests) : requests[i].x_api_key = api_key
       /\ panic # "no auth cookie found"

C8_Witness ==
    /\ api_key # None
    /\ cookie # None
    /\ env_cookie # None
    /\ client.variant = "Web"
    /\ Len(requests) = 2
    /\ pc = "exited"

\* C9: with no API key, no cookie and nothing discovered, construction of
\* the driver fails ("no auth cookie found"), the run ends in failure, and
\* no HTTP request has been sent.
NoCredential == api_key = None /\ cookie = None /\ env_cookie = None

C10_NeverPrintsAssetIdZero ==
    client.variant = "Web"
    => \A i \in 1..Len(stdout) : stdout[i] # <<"rbxassetid://", 0>>

\* C11: every failure of the upload reaches the command, which exits with
\* code 1 and writes nothing to stdout; stdout gets exactly one line
\* rbxassetid://<id> only when upload returned an id, and then the exit
\* code is 0 (failures taken from the cloud driver).
C11_FailureExitsWithCodeOne ==
    /\ (/\ caller = "upload_image"
        /\ client.variant = "Web"
        /\ pc = "exited"
        /\ IsErr(result))
       => (exit_code = Some(1) /\ stdout = <<>>)
    /\ stdout # <<>>
       => /\ result.kind = "Ok"
          /\ stdout = << <<"rbxassetid://", Unwrap(result.asset_id)>> >>
          /\ exit_code = Some(0)

\* C12: in the cloud flow a poll GET is sent only after the Create POST of
\* the call was answered 2xx with an operation path, and a request is sent
\* only when no earlier request is still awaiting its response.
C12_PollAfterCreateAndSerial ==
    /\ in_flight \in {0, 1}
    /\ in_flight = 1 <=> pc \in {"await_create", "await_status"}
    /\ \A i \in PollGets :
         /\ i = 2
         /\ requests[1].method = "POST"
         /\ create_response.received
         /\ create_response.status \in 200..299
         /\ RawUploadResponse(build, create_response.body) # None
         /\ requests[i].url =
              StatusUrl(build,
                        Unwrap(RawUploadResponse(build, create_response.body)))

C12_Witness ==
    /\ PollGets = {2}
    /\ in_flight = 1
    /\ create_response.status = 201

\* C13: one cloud upload call sends the Create POST at most once, and a
\* transport failure of any request ends the call at once with the Http
\* error: no request follows it.
Posts == {i \in 1..Len(requests) : requests[i].method = "POST"}

C13_CreateSentOnceTransportFatal ==
    client.variant = "Web"
    => /\ Cardinality(Posts) <= 1
       /\ transport_failed # None
          => /\ result = Http
             /\ Returned
             /\ Len(requests) = Unwrap(transport_failed)
             /\ in_flight = 0

C13_Witness ==
    /\ client.variant = "Web"
    /\ transport_failed = Some(2)
    /\ result = Http
    /\ Cardinality(Posts) = 1

\* C14: moderation retry is opt-in per call: upload_asset (the method the
\* command calls) never reaches the retrying session upload, whatever the
\* credential; only upload_asset_with_moderation_retry on a cookie client
\* does, and only then is an attempt repeated after a sleep.
RetryingUpload == "cookie::upload_image_with_moderation_retry"

C14_ModerationRetryIsOptIn ==
    /\ method = "upload_asset"
       => /\ dispatched # RetryingUpload
          /\ sleeps = 0
          /\ Cardinality(Posts) <= 1
    /\ caller = "upload_image" => dispatched # RetryingUpload
    /\ dispatched = RetryingUpload
       => (method = "upload_asset_with_moderation_retry"
           /\ client.variant = "Cookie")
    /\ (pc \in {"cookie", "returned"}
        /\ method = "upload_asset_with_moderation_retry"
        /\ client.variant = "Cookie")
       => dispatched = RetryingUpload
    /\ sleeps > 0 => dispatched = RetryingUpload

C14_Witness ==
    /\ method = "upload_asset"
    /\ client.variant = "Cookie"
    /\ dispatched = "cookie::upload_image"
    /\ result = ApiError("moderation")
    /\ Len(requests) = 1
    /\ pc = "exited"

\* The credential plaintext an error value holds: what the driver put into
\* it, and the key repeated inside a response body the error carries.
KeySent == \E i \in 1..Len(requests) : requests[i].x_api_key = client.secret

CredentialIn(r) ==
    r.plaintext
    \cup (IF r.body # None /\ Unwrap(r.body).header_echo /\ KeySent
          THEN client.secret ELSE None)

CreatePosts ==
    {i \in 1..Len(requests) :
        requests[i].method = "POST" /\ requests[i].url = CreateUrl(build)}
RequestPart(i) == requests[i].parts[2]

\* C17 (as claimed): the request part is the document
\* {assetType:"Decal", displayName, description,
\*  creationContext:{creator:{userId | groupId}}}.
C17_RequestDocumentAsSpecified ==
    \A i \in CreatePosts :
        /\ RequestPart(i).name = "request"
        /\ RequestPart(i).content =
             <<"{\"assetType\":", "\"", "Decal", "\"",
               ",\"displayName\":", "\"", upload_data.name, "\"",
               ",\"description\":", "\"", upload_data.description, "\"",
               ",\"creationContext\":{\"creator\":",
               IF upload_data.creator.creatorType = "User"
               THEN "{\"userId\":" ELSE "{\"groupId\":",
               ToString(upload_data.creator.creatorId), "}", "}}">>

\* C17 (amended): the request part is the document
\* {creationContext:{targetType:"Decal", assetName, assetDescription,
\*  assetId, creator:{creatorType:"User"|"Group", creatorId}}} with these
\* field names in this order, assetId being null (0 in roblox_web_api.rs),
\* and it depends on the metadata only.
C17_RequestDocumentAsSerialized ==
    \A i \in CreatePosts :
        /\ RequestPart(i).name = "request"
        /\ RequestPart(i).content =
             <<"{\"creationContext\":{\"targetType\":", "\"", "Decal", "\"",
               ",\"assetName\":", "\"", upload_data.name, "\"",
               ",\"assetDescription\":", "\"", upload_data.description, "\"",
               ",\"assetId\":",
               IF build = "api/web.rs" THEN "null" ELSE "0",
               ",\"creator\":",
               "{\"creatorType\":", "\"", upload_data.creator.creatorType,
               "\"", ",\"creatorId\":",
               ToString(upload_data.creator.creatorId), "}", "}}">>

C17_Witness ==
    /\ CreatePosts = {1}
    /\ upload_data.creator.creatorType = "Group"
    /\ upload_data.description = ""
    /\ Len(RequestPart(1).content) > 0

\* C18: without an API key a configured cookie is the one the session
\* client holds, and get_auth_cookie is called only when no cookie is
\* configured; what it finds is used only in that case.
C18_ExplicitCookieBeforeDiscovery ==
    api_key = None
    => /\ client.variant \in {"none", "Cookie"}
       /\ discovered => cookie = None
       /\ cookie # None
          => /\ client.variant = "Cookie" => client.secret = cookie
             /\ AfterResolve => client.variant = "Cookie"
       /\ cookie = None
          => /\ client.variant = "Cookie"
                => (discovered /\ client.secret = env_cookie)
             /\ AfterResolve => (discovered /\ client.variant = "Cookie")

C18_Witness ==
    /\ api_key = None
    /\ cookie # None
    /\ env_cookie # None
    /\ client.variant = "Cookie"
    /\ client.secret = cookie
    /\ ~discovered
    /\ pc = "exited"

\* C19: in a run of the command the image is read, decoded, bled and
\* PNG-encoded, in this order, before the first HTTP request, and the bytes
\* every request uploads are the encoded bled image, never the file as read.
Stages == <<"file", "decoded", "bled", "png">>
ImageParts(i) ==
    {j \in 1..Len(requests[i].parts) :
        requests[i].parts[j].name \in {"fileContent", "body"}}

C19_BledPngBeforeFirstRequest ==
    caller = "upload_image"
    => /\ image = SubSeq(Stages, 1, Len(image))
       /\ requests # <<>> => image = Stages
       /\ \A i \in 1..Len(requests) : \A j \in ImageParts(i) :
            requests[i].parts[j].content = Stages

C19_Witness ==
    /\ caller = "upload_image"
    /\ client.variant = "Web"
    /\ Len(requests) = 1
    /\ ImageParts(1) = {1}
    /\ requests[1].parts[1].content = Stages

\* C20: on a client built from an API key,
\* upload_asset_with_moderation_retry runs the very upload that
\* upload_asset runs: one Create, then the status fetch, no repeated
\* attempt and no sleep.
C20_WebRetryMethodIsPlainUpload ==
    client.variant = "Web"
    => /\ dispatched \in {"", "web::upload_asset"}
       /\ pc \in {"create", "await_create", "status", "await_status"}
          => dispatched = "web::upload_asset"
       /\ sleeps = 0
       /\ Len(requests) <= 2
       /\ Cardinality(Posts) <= 1
       /\ Len(requests) = 2 => requests[2].method = "GET"

C20_Witness ==
    /\ method = "upload_asset_with_moderation_retry"
    /\ client.variant = "Web"
    /\ dispatched = "web::upload_asset"
    /\ Len(requests) = 2
    /\ result.kind = "Ok"
    /\ pc = "exited"

====
